---- MODULE Spec2Model ----
(***************************************************************************)
(* AmbuLink backend (src/backend_ambulink.py): the role guard, the audit   *)
(* wrapper and the HTTP handlers over the patient / alert / audit tables   *)
(* and the socket rooms.  Every request is a process that runs its handler *)
(* one store access (query, commit, emit, clock read) at a time, so        *)
(* concurrent requests interleave exactly where the code touches shared    *)
(* state.                                                                  *)
(***************************************************************************)
EXTENDS Integers, Sequences, FiniteSets, TLC

\* ---------------------------------------------------------------- bounds
MaxClock == 1          \* seconds the wall clock may advance
MaxRequests == 2       \* requests served in one behaviour, all routes offered
MaxGuarded == 1        \* requests served under SpecGuard
MaxUpdates == 2        \* requests served under SpecVitals
MaxAcks == 2           \* requests served under SpecAlerts
MaxPublishes == 2      \* requests served under SpecRooms
MaxJoins == 2          \* join messages the clients send under SpecRooms
MaxIntakes == 1        \* requests served under SpecIntake
MaxQueries == 3        \* requests served under SpecAlertList
MaxCodec == 2          \* requests served under SpecCodec
MaxReveals == 2        \* requests served under SpecReveal
MaxOrdered == 3        \* requests served under SpecOrder

\* ------------------------------------------------------------- constants
EtaMinutes == 15       \* timedelta(minutes=15)
RiskScale == 100       \* risk_score = confidence * 100
AlertPageCap == 100    \* .limit(100)
Unit == 100            \* floats are carried in hundredths: 1.0 is Unit
Malformed == 9         \* a vital sign that float() / split('/') cannot read
Unset == -2            \* a Float column never assigned (0 is the float 0.0)

Procs == {1, 2}        \* request workers running concurrently
Conns == {1, 2}        \* socket ids (request.sid) of the clients
None == 0              \* Python None / SQL NULL
Absent == -1           \* key not present in the request JSON

\* Users seeded in the users table: id -> role.  Identity 4 is a valid
\* token whose user row does not exist (User.query.get returns None).
Users == {1, 2, 3}
Identities == Users \cup {4}
UserRole(u) == CASE u = 1 -> "paramedic" [] u = 2 -> "physician" [] OTHER -> "admin"

Hospitals == {1, 2}    \* rows of the hospitals table, by id
\* the is_active columns offered: no hospital active, one, both
ActiveFlags == {[h \in Hospitals |-> FALSE], [h \in Hospitals |-> h = 1],
                [h \in Hospitals |-> TRUE]}

Fields == {"heart_rate", "blood_pressure", "oxygen_saturation",
           "temperature", "respiratory_rate"}

Ops == {"create_patient", "get_patient", "update_patient_vitals",
        "get_hospital_alerts", "acknowledge_alert", "get_patient_record",
        "get_audit_logs"}

\* @require_role(...) of each route
AllowedRoles(op) ==
  CASE op = "create_patient"        -> {"paramedic", "admin"}
    [] op = "get_patient"           -> {"paramedic", "physician", "admin"}
    [] op = "update_patient_vitals" -> {"paramedic"}
    [] op = "get_hospital_alerts"   -> {"physician", "admin"}
    [] op = "acknowledge_alert"     -> {"physician", "admin"}
    [] op = "get_patient_record"    -> {"physician", "admin"}
    [] OTHER                        -> {"admin"}

\* routes decorated with @log_audit, with the (action, resource_type) given
AuditedOps == {"create_patient", "get_patient", "update_patient_vitals",
               "acknowledge_alert", "get_patient_record"}
AuditAction(op) ==
  CASE op = "create_patient"        -> <<"CREATE", "patient">>
    [] op = "get_patient"           -> <<"READ", "patient">>
    [] op = "update_patient_vitals" -> <<"UPDATE", "patient">>
    [] op = "acknowledge_alert"     -> <<"UPDATE", "alert">>
    [] OTHER                        -> <<"READ", "record">>

\* f"PAT-{int(ts)}", f"ALR-{int(ts)}", f"hospital_{id}", f"patient_{pid}"
PatId(t) == <<"PAT", t>>
AlrId(t) == <<"ALR", t>>
HospitalRoom(h) == <<"hospital", h>>
PatientRoom(pid) == <<"patient", pid>>

VARIABLES
  clock,        \* datetime.utcnow(), in whole seconds
  hospActive,   \* hospitals.is_active
  patients,     \* patients table, a sequence indexed by the autoincrement id
  alerts,       \* alerts table, indexed by the autoincrement id
  records,      \* patient_records table
  audit,        \* audit_logs table
  emitted,      \* socketio.emit calls made, in order
  req,          \* the request each worker is serving
  nReq,         \* requests begun so far
  trained,      \* triage_model._trained
  connected,    \* socket ids of the open connections
  rooms,        \* room membership kept by the socket server: <<sid, room>>
  inbox,        \* what each connection has been sent, in order
  left,         \* <<sid, room>>: rooms a client has asked to leave
  nJoin         \* 'joined_room' replies sent so far

vars == <<clock, hospActive, patients, alerts, records, audit, emitted, req, nReq,
          trained, connected, rooms, inbox, left, nJoin>>

\* the socket server's state and the clients' view of it
sockVars == <<connected, rooms, inbox, left, nJoin>>

NoVitals == [f \in Fields |-> None]
NoData == [f \in Fields |-> Absent]

\* request bodies offered to POST /api/patients (the vitals object)
IntakeInputs ==
  {NoVitals, [f \in Fields |-> 1],
   [f \in Fields |-> IF f = "blood_pressure" THEN Malformed ELSE 1]}

\* request bodies offered to PUT /api/patients/<id>/vitals
UpdateInputs ==
  {NoData,
   [NoData EXCEPT !["heart_rate"] = 2],
   [NoData EXCEPT !["temperature"] = 2],
   [NoData EXCEPT !["heart_rate"] = 1, !["respiratory_rate"] = None]}

Provided(data) == {f \in Fields : data[f] # Absent}

IdleReq ==
  [pc |-> "idle", op |-> "none", actor |-> 0, arg |-> <<"", 0>>, data |-> NoData,
   pid |-> <<"", 0>>, tier |-> "", conf |-> 0, dest |-> None, eta |-> None,
   row |-> 0, arow |-> 0, loaded |-> NoVitals, wasAcked |-> FALSE, pubFail |-> FALSE,
   resp |-> 0, nAudit |-> 0, auditStatus |-> "", demo |-> "{}", hist |-> "{}",
   storeErr |-> FALSE, flag |-> "", result |-> <<>>,
   body |-> <<"", "">>]

\* no client has connected yet
NoSockets ==
  /\ connected = {}
  /\ rooms = {}
  /\ inbox = [c \in Conns |-> <<>>]
  /\ left = {}
  /\ nJoin = 0

Init ==
  /\ clock = 0
  /\ hospActive \in ActiveFlags
  /\ patients = <<>>
  /\ alerts = <<>>
  /\ records = <<>>
  /\ audit = <<>>
  /\ emitted = <<>>
  /\ req = [p \in Procs |-> IdleReq]
  /\ nReq = 0
  /\ trained = FALSE
  /\ NoSockets

\* the wall clock advances
Tick ==
  /\ clock < MaxClock
  /\ clock' = clock + 1
  /\ UNCHANGED <<hospActive, patients, alerts, records, audit, emitted, req, nReq, trained, sockVars>>

\* ------------------------------------------------------------ role guard
\* the guard with the role test dropped: any resolved user passes
AuthorizedAnyRole(identity, allowed) == identity \in Users

\* require_role: `if not user or user.role not in allowed_roles: return 403`
Authorized(identity, allowed) ==
  identity \in Users /\ UserRole(identity) \in allowed

FirstStep(op) ==
  CASE op = "create_patient"        -> "cp_build"
    [] op = "get_patient"           -> "gp_query"
    [] op = "update_patient_vitals" -> "uv_query"
    [] op = "get_hospital_alerts"   -> "gh_query"
    [] op = "acknowledge_alert"     -> "aa_query"
    [] op = "get_patient_record"    -> "gr_query"
    [] OTHER                        -> "ga_query"

\* path arguments offered: the ids allocated in seconds 0 and 1 (rows that
\* may or may not exist when the handler looks them up), every hospital
ArgsFor(op) ==
  CASE op \in {"get_patient", "update_patient_vitals", "get_patient_record"}
         -> {PatId(0), PatId(1)}
    [] op = "acknowledge_alert"   -> {AlrId(0), AlrId(1)}
    [] op = "get_hospital_alerts" -> {HospitalRoom(h) : h \in Hospitals}
    [] OTHER -> {<<"", 0>>}

DataFor(op) ==
  CASE op = "create_patient"        -> IntakeInputs
    [] op = "update_patient_vitals" -> UpdateInputs
    [] OTHER -> {NoData}

AllArgs == UNION {ArgsFor(op) : op \in Ops}
AllData == UNION {DataFor(op) : op \in Ops}

\* data.get('demographics', {}), data.get('medical_history', {}) of a body
\* that carries neither key
NoPhi == <<"{}", "{}">>

\* A request for one of the routes `ops` arrives with a valid token at a
\* worker that is free (its previous response, if any, has been sent) and
\* passes through require_role; a rejected request never reaches the handler.
\* The callers are `whos`; of the path arguments and bodies of the route
\* those in `args` and `bodies` are sent, with the PHI values `phis`.
BeginFrom(p, ops, max, whos, args, bodies, phis) ==
  /\ req[p].pc \in {"idle", "done"}
  /\ nReq < max
  /\ \E op \in ops, who \in whos :
       IF Authorized(who, AllowedRoles(op))
       THEN \E a \in ArgsFor(op) \cap args, d \in DataFor(op) \cap bodies,
               phi \in (IF op = "create_patient" THEN phis ELSE {NoPhi}) :
              req' = [req EXCEPT ![p] =
                        [IdleReq EXCEPT !.pc = FirstStep(op), !.op = op,
                                        !.actor = who, !.arg = a, !.data = d,
                                        !.demo = phi[1], !.hist = phi[2]]]
       ELSE req' = [req EXCEPT ![p] =
                      [IdleReq EXCEPT !.pc = "done", !.op = op, !.actor = who,
                                      !.resp = 403]]
  /\ nReq' = nReq + 1
  /\ UNCHANGED <<clock, hospActive, patients, alerts, records, audit, emitted, trained, sockVars>>

\* every caller, every argument and body of the routes, no PHI in the body
BeginOf(p, ops, max) ==
  BeginFrom(p, ops, max, Identities, AllArgs, AllData, {NoPhi})

Begin(p) == BeginOf(p, Ops, MaxRequests)

\* ------------------------------------------------------------ store reads
\* the query with its filter dropped: Patient.query.first()
FindPatientUnfiltered(pid) == IF Len(patients) > 0 THEN 1 ELSE 0

\* Patient.query.filter_by(patient_id=...).first(): the row id, or 0
FindPatient(pid) ==
  IF \E i \in 1..Len(patients) : patients[i].patient_id = pid
  THEN CHOOSE i \in 1..Len(patients) : patients[i].patient_id = pid
  ELSE 0

\* Alert.query.filter_by(alert_id=...).first(): the row id, or 0
FindAlert(aid) ==
  IF \E i \in 1..Len(alerts) : alerts[i].alert_id = aid
  THEN CHOOSE i \in 1..Len(alerts) : alerts[i].alert_id = aid
  ELSE 0

\* Hospital.query.filter_by(is_active=True): the candidate rows of .first()
ActiveHospitals == {h \in Hospitals : hospActive[h]}

\* ------------------------------------------------------------- PHI codec
\* Values a request body can carry under 'demographics' / 'medical_history',
\* written as Python literals: two dicts, a list, two strings (the second
\* one holds the JSON text of a dict) and None.
PhiValues == {"{}", "{name:A}", "[A]", "'abc'", "'{name:A}'", "None"}

Kind(v) ==
  CASE v \in {"{}", "{name:A}"}      -> "dict"
    [] v = "[A]"                     -> "list"
    [] v \in {"'abc'", "'{name:A}'"} -> "str"
    [] OTHER                         -> "NoneType"

\* str objects are written t:<characters>
\* json.dumps of a dict
Dumps(v) == CASE v = "{}" -> "t:{}" [] OTHER -> "t:{name:A}"
\* the characters of a str value
StrText(v) == CASE v = "'abc'" -> "t:abc" [] OTHER -> "t:{name:A}"
\* json.loads of a str: the value, or "raise" (JSONDecodeError)
Loads(t) ==
  CASE t = "t:{}"       -> "{}"
    [] t = "t:{name:A}" -> "{name:A}"
    [] OTHER            -> "raise"

PhiKey == 1                 \* Config.HIPAA_ENCRYPTION_KEY of this process
OtherKey == 2               \* the key of another deployment
NullToken == <<0, "">>      \* the column is NULL
Token(key, text) == <<key, text>>

\* lines 63-67: a dict is dumped, then data.encode(): only a str has it
CanEncrypt(v) == Kind(v) \in {"dict", "str"}
EncryptPhi(v) ==
  Token(PhiKey, IF Kind(v) = "dict" THEN Dumps(v) ELSE StrText(v))

\* a decrypt whose failure is not caught: the exception travels on
DecryptPhiUnguarded(tok) == IF tok[1] = PhiKey THEN tok[2] ELSE "t:raise"

\* lines 69-76: the decrypted str, or None when Fernet rejects the token
DecryptPhi(tok) == IF tok[1] = PhiKey THEN tok[2] ELSE "None"

\* lines 143-148, 154-159: the property getter; "raise" when json.loads does
ReadPhi(col) ==
  IF col = NullToken THEN "{}"
  ELSE LET data == DecryptPhi(col) IN
         IF data \notin {"None", "t:"} THEN Loads(data) ELSE "{}"

\* A stored token becomes one that Fernet rejects under this process's key:
\* its bytes were damaged (key 0), or it was written under another key.
Spoil ==
  /\ \E i \in 1..Len(patients), k \in {0, OtherKey} :
       \/ /\ patients[i].demographics[1] = PhiKey
          /\ patients' = [patients EXCEPT ![i].demographics = Token(k, @[2])]
       \/ /\ patients[i].medical_history[1] = PhiKey
          /\ patients' = [patients EXCEPT ![i].medical_history = Token(k, @[2])]
  /\ UNCHANGED <<clock, hospActive, alerts, records, audit, emitted, req, nReq, trained, sockVars>>

\* ---------------------------------------------------------------- triage
\* esi_mapping
Tiers == {"ESI-1", "ESI-2", "ESI-3", "ESI-4", "ESI-5"}

\* the classifier's answer without a trained model, and when scoring raised
Untrained == [level |-> "ESI-3", confidence |-> 0, flag |-> "warning"]
ScoringFailed == [level |-> "ESI-3", confidence |-> 0, flag |-> "error"]

\* answers of a trained forest: the mapped class and max(probabilities),
\* the confidence in hundredths
ModelOutputs ==
  {[level |-> "ESI-1", confidence |-> Unit, flag |-> ""],
   [level |-> "ESI-2", confidence |-> 60, flag |-> ""],
   [level |-> "ESI-5", confidence |-> 40, flag |-> ""]}

\* lines 298-308: the feature loop reads heart_rate, blood_pressure,
\* respiratory_rate and temperature (the feature 'oxygen_sat' is not a key
\* of the dict and defaults to 0); float(None), None.split and a blood
\* pressure that is not 'a/b' raise inside the try
Scorable(vitals) ==
  /\ \A f \in {"heart_rate", "respiratory_rate", "temperature"} :
       vitals[f] \notin {None, Malformed}
  /\ vitals["blood_pressure"] \notin {None, Malformed}

\* a classifier whose scoring errors are not caught: the exception leaves
\* predict_triage_level
PredictTriageUnguarded(vitals) ==
  IF ~trained THEN {Untrained}
  ELSE IF ~Scorable(vitals)
       THEN {[level |-> "", confidence |-> 0, flag |-> "raise"]}
       ELSE ModelOutputs \cup {[level |-> "", confidence |-> 0, flag |-> "raise"]}

\* TriageModel.predict_triage_level: the answers it can return.  Scoring
\* may raise for reasons of the fitted model as well; every exception ends
\* in the except branch.
PredictTriage(vitals) ==
  IF ~trained THEN {Untrained}
  ELSE IF ~Scorable(vitals) THEN {ScoringFailed}
  ELSE ModelOutputs \cup {ScoringFailed}

\* lines 274-278
Train ==
  /\ ~trained
  /\ trained' = TRUE
  /\ UNCHANGED <<clock, hospActive, patients, alerts, records, audit, emitted, req, nReq, sockVars>>

\* 'critical' if 'ESI-1' in level or 'ESI-2' in level else 'medium'
Severity(level) == IF level \in {"ESI-1", "ESI-2"} THEN "critical" ELSE "medium"

\* ---------------------------------------------------------- audit wrapper
\* where log_audit's wrapper continues once the wrapped function returned
\* or raised; a route without @log_audit goes straight to the response
AfterReturn(op) == IF op \in AuditedOps THEN "audit_ok" ELSE "done"
AfterRaise(op) == IF op \in AuditedOps THEN "audit_err" ELSE "done"

AuditEntry(r, status) ==
  [user_id |-> r.actor, action |-> AuditAction(r.op)[1],
   resource_type |-> AuditAction(r.op)[2], resource_id |-> "", status |-> status]

\* log_audit, the path after fn returned: status='success', commit, return
AuditSuccess(p) ==
  /\ req[p].pc = "audit_ok"
  /\ audit' = Append(audit, AuditEntry(req[p], "success"))
  /\ req' = [req EXCEPT ![p].pc = "done", ![p].nAudit = @ + 1,
                        ![p].auditStatus = "success"]
  /\ UNCHANGED <<clock, hospActive, patients, alerts, records, emitted, nReq, trained, sockVars>>

\* log_audit, the except path: status='error', commit, raise (HTTP 500)
AuditError(p) ==
  /\ req[p].pc = "audit_err"
  /\ audit' = Append(audit, AuditEntry(req[p], "error"))
  /\ req' = [req EXCEPT ![p].pc = "done", ![p].nAudit = @ + 1,
                        ![p].auditStatus = "error", ![p].resp = 500]
  /\ UNCHANGED <<clock, hospActive, patients, alerts, records, emitted, nReq, trained, sockVars>>

\* ------------------------------------------------------------ socket rooms
\* rooms the clients ask to join: a hospital's and a patient's
RoomsOffered == {HospitalRoom(1), PatientRoom(PatId(0))}
NoRoom == <<"", 0>>

\* one message on a connection: n is the position of the emit call in
\* `emitted`, or 0 for the greeting sent to the connecting client alone
Sent(n, room, name) == [n |-> n, room |-> room, event |-> name]

\* an emit that ignores room= and goes to every open connection
RecipientsAll(room) == connected

\* socketio.emit(..., room=r): the sids that are in r when emit is called
Recipients(room) == {c \in connected : <<c, room>> \in rooms}

\* a transport that hands the newest message over first
EnqueueFirst(stream, msg) == <<msg>> \o stream

\* the transport of one connection delivers in the order of sending
Enqueue(stream, msg) == Append(stream, msg)

Deliver(to, msg) ==
  [c \in Conns |-> IF c \in to THEN Enqueue(inbox[c], msg) ELSE inbox[c]]

\* lines 720-740: the connections whose token and role a socket handler has
\* verified. handle_connect, join_hospital and join_patient read no token
\* and are not wrapped by require_role, so no connection ever is.
RoleChecked == {}

\* lines 720-724: a client connects under a fresh sid and is greeted
Connect(c) ==
  /\ c \notin connected
  /\ inbox[c] = <<>>
  /\ connected' = connected \cup {c}
  /\ inbox' = Deliver({c}, Sent(0, NoRoom, "connection_response"))
  /\ UNCHANGED <<clock, hospActive, patients, alerts, records, audit, emitted, req, nReq, trained, rooms, left, nJoin>>

\* join_room(room); emit('joined_room', {'room': room}) to the caller, who
\* from then on takes itself to be in the room
JoinRoom(c, room) ==
  /\ c \in connected
  /\ nJoin < MaxJoins
  /\ rooms' = rooms \cup {<<c, room>>}
  /\ nJoin' = nJoin + 1
  /\ left' = left \ {<<c, room>>}
  /\ UNCHANGED <<clock, hospActive, patients, alerts, records, audit, emitted, req, nReq, trained, connected, inbox>>

\* lines 727-732
JoinHospital(c) ==
  \E r \in {x \in RoomsOffered : x[1] = "hospital"} : JoinRoom(c, r)

\* lines 735-740
JoinPatient(c) ==
  \E r \in {x \in RoomsOffered : x[1] = "patient"} : JoinRoom(c, r)

\* lines 743-746: the handler only logs; the socket server has dropped the
\* sid from every room by the time the connection is gone
Disconnect(c) ==
  /\ c \in connected
  /\ connected' = connected \ {c}
  /\ rooms' = {m \in rooms : m[1] # c}
  /\ UNCHANGED <<clock, hospActive, patients, alerts, records, audit, emitted, req, nReq, trained, inbox, left, nJoin>>

\* A client asks to leave a room it is in.  leave_room is imported (line 9)
\* but no @socketio.on handler calls it: the message has no handler and
\* the server's membership stays as it was.
AskLeave(c) ==
  /\ c \in connected
  /\ \E m \in rooms \ left :
       /\ m[1] = c
       /\ left' = left \cup {m}
  /\ UNCHANGED <<clock, hospActive, patients, alerts, records, audit, emitted, req, nReq, trained, connected, rooms, inbox, nJoin>>

\* ---------------------------------------------------------- create_patient
Event(room, name) ==
  [room |-> room, event |-> name, patient_id |-> <<"", 0>>, alert_id |-> <<"", 0>>,
   hospital_id |-> None, triage_level |-> "", estimated_arrival |-> None,
   vitals |-> NoVitals, timestamp |-> None]

\* lines 493-494, 507: the two PHI setters encrypt, and the age is read
\* with .get from the demographics, which only a dict has
BuildRaises(r) ==
  \/ ~CanEncrypt(r.demo)
  \/ ~CanEncrypt(r.hist)
  \/ Kind(r.demo) # "dict"

\* lines 485-517: allocate the id from the clock, build the row, classify;
\* an exception ends in the handler's except (400)
CreateBuild(p) ==
  /\ req[p].pc = "cp_build"
  /\ IF BuildRaises(req[p])
     THEN req' = [req EXCEPT ![p].pc = AfterReturn(req[p].op), ![p].resp = 400]
     ELSE \E t \in PredictTriage(req[p].data) :
            req' = [req EXCEPT ![p] =
                      IF t.flag = "raise"
                      THEN [@ EXCEPT !.pc = AfterReturn(req[p].op), !.resp = 400]
                      ELSE [@ EXCEPT !.pc = "cp_route", !.pid = PatId(clock),
                                     !.tier = t.level, !.conf = t.confidence,
                                     !.flag = t.flag]]
  /\ UNCHANGED <<clock, hospActive, patients, alerts, records, audit, emitted, nReq, trained, sockVars>>

\* lines 519-523: first active hospital (no ORDER BY: any active row), eta
CreateRoute(p) ==
  /\ req[p].pc = "cp_route"
  /\ \/ \E h \in ActiveHospitals :
          req' = [req EXCEPT ![p].pc = "cp_persist", ![p].dest = h,
                             ![p].eta = clock + EtaMinutes * 60]
     \/ /\ ActiveHospitals = {}
        /\ req' = [req EXCEPT ![p].pc = "cp_persist"]
  /\ UNCHANGED <<clock, hospActive, patients, alerts, records, audit, emitted, nReq, trained, sockVars>>

\* a row whose risk score is the bare confidence
PatientRowUnscaled(r, now) ==
  [patient_id |-> r.pid, vitals |-> r.data, triage_level |-> r.tier,
   risk_score |-> r.conf, destination_hospital_id |-> r.dest,
   estimated_arrival |-> r.eta, created_at |-> now, updated_at |-> now,
   demographics |-> EncryptPhi(r.demo), medical_history |-> EncryptPhi(r.hist)]

\* lines 491-523: the columns the handler has assigned when it commits
PatientRow(r, now) ==
  [patient_id |-> r.pid, vitals |-> r.data, triage_level |-> r.tier,
   risk_score |-> r.conf * RiskScale, destination_hospital_id |-> r.dest,
   estimated_arrival |-> r.eta, created_at |-> now, updated_at |-> now,
   demographics |-> EncryptPhi(r.demo), medical_history |-> EncryptPhi(r.hist)]

\* lines 525-526: INSERT the patient; patient_id is UNIQUE, a duplicate
\* raises IntegrityError, which the handler's except turns into a 400
CreatePersist(p) ==
  /\ req[p].pc = "cp_persist"
  /\ IF FindPatient(req[p].pid) # 0
     THEN /\ req' = [req EXCEPT ![p].pc = AfterReturn(req[p].op), ![p].resp = 400,
                                ![p].storeErr = TRUE]
          /\ UNCHANGED patients
     ELSE /\ patients' = Append(patients, PatientRow(req[p], clock))
          /\ req' = [req EXCEPT ![p].pc = "cp_alert", ![p].row = Len(patients) + 1]
  /\ UNCHANGED <<clock, hospActive, alerts, records, audit, emitted, nReq, trained, sockVars>>

AlertRow(r, now) ==
  [alert_id |-> AlrId(now), patient_id |-> r.row, hospital_id |-> r.dest,
   alert_type |-> "patient_arrival",
   severity |-> Severity(patients[r.row].triage_level),
   is_acknowledged |-> FALSE, acknowledged_by |-> None, acknowledged_at |-> None,
   created_at |-> now]

\* an intake that inserts the alert whether or not a hospital was found
CreateAlertUnrouted(p) ==
  /\ req[p].pc = "cp_alert"
  /\ alerts' = Append(alerts, AlertRow(req[p], clock))
  /\ req' = [req EXCEPT ![p].pc = AfterReturn(req[p].op), ![p].arow = Len(alerts) + 1]
  /\ UNCHANGED <<clock, hospActive, patients, records, audit, emitted, nReq, trained, sockVars>>

\* lines 528-539: build and INSERT the alert.  destination_hospital.id on
\* None raises AttributeError, the message reads patient.demographics with
\* .get, alert_id is UNIQUE; each failure ends in the 400
CreateAlert(p) ==
  /\ req[p].pc = "cp_alert"
  /\ IF \/ req[p].dest = None
        \/ Kind(ReadPhi(patients[req[p].row].demographics)) # "dict"
        \/ FindAlert(AlrId(clock)) # 0
     THEN /\ req' = [req EXCEPT ![p].pc = AfterReturn(req[p].op), ![p].resp = 400,
                                ![p].storeErr =
                                   /\ req[p].dest # None
                                   /\ Kind(ReadPhi(patients[req[p].row].demographics)) = "dict"]
          /\ UNCHANGED alerts
     ELSE /\ alerts' = Append(alerts, AlertRow(req[p], clock))
          /\ req' = [req EXCEPT ![p].pc = "cp_emit", ![p].arow = Len(alerts) + 1]
  /\ UNCHANGED <<clock, hospActive, patients, records, audit, emitted, nReq, trained, sockVars>>

\* lines 541-559: emit to the hospital room and return 201; an emit that
\* raises is caught by the handler's except and returned as a 400
CreateEmit(p) ==
  /\ req[p].pc = "cp_emit"
  /\ \/ /\ emitted' = Append(emitted,
             [Event(HospitalRoom(req[p].dest), "new_patient_alert") EXCEPT
                !.patient_id = patients[req[p].row].patient_id,
                !.hospital_id = req[p].dest,
                !.triage_level = patients[req[p].row].triage_level,
                !.estimated_arrival = patients[req[p].row].estimated_arrival,
                !.alert_id = alerts[req[p].arow].alert_id])
        /\ inbox' = Deliver(Recipients(HospitalRoom(req[p].dest)),
                            Sent(Len(emitted) + 1, HospitalRoom(req[p].dest),
                                 "new_patient_alert"))
        /\ req' = [req EXCEPT ![p].pc = AfterReturn(req[p].op), ![p].resp = 201]
     \/ /\ req' = [req EXCEPT ![p].pc = AfterReturn(req[p].op), ![p].resp = 400,
                              ![p].pubFail = TRUE]
        /\ UNCHANGED <<emitted, inbox>>
  /\ UNCHANGED <<clock, hospActive, patients, alerts, records, audit, nReq, trained, connected, rooms, left, nJoin>>

\* -------------------------------------------------------------- get_patient
\* lines 571-590: the response reads both PHI properties; a getter that
\* raises leaves the handler
GetPatient(p) ==
  /\ req[p].pc = "gp_query"
  /\ LET i == FindPatient(req[p].arg) IN
       req' = [req EXCEPT ![p] =
                 IF i = 0
                 THEN [@ EXCEPT !.pc = AfterReturn(req[p].op), !.resp = 404]
                 ELSE LET d == ReadPhi(patients[i].demographics)
                          h == ReadPhi(patients[i].medical_history) IN
                        IF "raise" \in {d, h}
                        THEN [@ EXCEPT !.pc = AfterRaise(req[p].op), !.row = i]
                        ELSE [@ EXCEPT !.pc = AfterReturn(req[p].op), !.row = i,
                                       !.resp = 200, !.body = <<d, h>>]]
  /\ UNCHANGED <<clock, hospActive, patients, alerts, records, audit, emitted, nReq, trained, sockVars>>

\* ---------------------------------------------------- update_patient_vitals
\* lines 598-600: load the row into the request's session
UpdateQuery(p) ==
  /\ req[p].pc = "uv_query"
  /\ LET i == FindPatient(req[p].arg) IN
       req' = [req EXCEPT ![p] =
                 IF i = 0
                 THEN [@ EXCEPT !.pc = AfterReturn(req[p].op), !.resp = 404]
                 ELSE [@ EXCEPT !.pc = "uv_commit", !.row = i,
                                !.loaded = patients[i].vitals]]
  /\ UNCHANGED <<clock, hospActive, patients, alerts, records, audit, emitted, nReq, trained, sockVars>>

\* a merge that reads data.get(key) without the current value as default
MergeVitalsNoDefault(loaded, data) ==
  [f \in Fields |-> IF data[f] # Absent THEN data[f] ELSE None]

\* lines 603-607: attr = data.get(key, attr) on the loaded object
MergeVitals(loaded, data) ==
  [f \in Fields |-> IF data[f] # Absent THEN data[f] ELSE loaded[f]]

\* a flush that writes the whole in-memory row back
FlushWholeRow(stored, loaded, new) == new

\* line 610, db.session.commit(): the session's unit of work compares each
\* attribute with the value it loaded and issues
\* UPDATE patients SET <the columns whose value differs> WHERE id = <row>,
\* so a column the request left as loaded is not written
FlushVitals(stored, loaded, new) ==
  [f \in Fields |-> IF new[f] # loaded[f] THEN new[f] ELSE stored[f]]

\* lines 602-610; updated_at has onupdate=utcnow (line 135) and is set by
\* the UPDATE, which is issued only when some column changed
UpdateCommit(p) ==
  /\ req[p].pc = "uv_commit"
  /\ LET i == req[p].row
         new == MergeVitals(req[p].loaded, req[p].data) IN
       patients' = [patients EXCEPT
                      ![i].vitals = FlushVitals(@, req[p].loaded, new),
                      ![i].updated_at = IF new # req[p].loaded THEN clock ELSE @]
  /\ req' = [req EXCEPT ![p].pc = "uv_emit"]
  /\ UNCHANGED <<clock, hospActive, alerts, records, audit, emitted, nReq, trained, sockVars>>

\* a session created with expire_on_commit=False: the attributes keep the
\* values the request merged in memory
KeepMerged(stored, merged) == merged

\* lines 615-621: the commit expired the object's attributes, so the first
\* attribute read refreshes all of them from the table
Refresh(stored, merged) == stored

\* lines 613-622: the payload of the event is built from the refreshed
\* attributes before socketio.emit is entered; other requests may commit
\* between the refresh and the emit
UpdateReload(p) ==
  /\ req[p].pc = "uv_emit"
  /\ req' = [req EXCEPT ![p].pc = "uv_send",
                        ![p].loaded = Refresh(patients[req[p].row].vitals,
                                              MergeVitals(@, req[p].data))]
  /\ UNCHANGED <<clock, hospActive, patients, alerts, records, audit, emitted, nReq, trained, sockVars>>

\* lines 613-625: socketio.emit of the payload to the patient's room; an
\* emit that raises leaves the handler
UpdateEmit(p) ==
  /\ req[p].pc = "uv_send"
  /\ \/ /\ emitted' = Append(emitted,
             [Event(PatientRoom(req[p].arg), "patient_vitals_update") EXCEPT
                !.patient_id = patients[req[p].row].patient_id,
                !.vitals = req[p].loaded,
                !.timestamp = clock])
        /\ inbox' = Deliver(Recipients(PatientRoom(req[p].arg)),
                            Sent(Len(emitted) + 1, PatientRoom(req[p].arg),
                                 "patient_vitals_update"))
        /\ req' = [req EXCEPT ![p].pc = AfterReturn(req[p].op), ![p].resp = 200]
     \/ /\ req' = [req EXCEPT ![p].pc = AfterRaise(req[p].op), ![p].pubFail = TRUE]
        /\ UNCHANGED <<emitted, inbox>>
  /\ UNCHANGED <<clock, hospActive, patients, alerts, records, audit, nReq, trained, connected, rooms, left, nJoin>>

\* ------------------------------------------------------ get_hospital_alerts
\* the query without its is_acknowledged filter
AlertsOfHospital(h) == {a \in 1..Len(alerts) : alerts[a].hospital_id = h}

\* Alert.query.filter_by(hospital_id=hospital_id, is_acknowledged=False)
ActiveAlerts(h) ==
  {a \in 1..Len(alerts) : alerts[a].hospital_id = h /\ ~alerts[a].is_acknowledged}

\* .order_by(Alert.created_at.desc()): the orders the database may return
\* the rows in (rows of equal created_at come in any order)
NewestFirst(rows) ==
  {q \in [1..Cardinality(rows) -> rows] :
     /\ \A i, j \in DOMAIN q : i # j => q[i] # q[j]
     /\ \A i, j \in DOMAIN q :
          i < j => alerts[q[i]].created_at >= alerts[q[j]].created_at}

\* .limit(100)
Page(q) == SubSeq(q, 1, IF Len(q) < AlertPageCap THEN Len(q) ELSE AlertPageCap)

\* lines 633-648 (no @log_audit on this route)
GetHospitalAlerts(p) ==
  /\ req[p].pc = "gh_query"
  /\ \E q \in NewestFirst(ActiveAlerts(req[p].arg[2])) :
       req' = [req EXCEPT ![p].pc = AfterReturn(req[p].op), ![p].resp = 200,
                          ![p].result = Page(q)]
  /\ UNCHANGED <<clock, hospActive, patients, alerts, records, audit, emitted, nReq, trained, sockVars>>

\* -------------------------------------------------------- acknowledge_alert
\* lines 658-660
AckQuery(p) ==
  /\ req[p].pc = "aa_query"
  /\ LET i == FindAlert(req[p].arg) IN
       req' = [req EXCEPT ![p] =
                 IF i = 0
                 THEN [@ EXCEPT !.pc = AfterReturn(req[p].op), !.resp = 404]
                 ELSE [@ EXCEPT !.pc = "aa_commit", !.arow = i,
                                !.wasAcked = alerts[i].is_acknowledged]]
  /\ UNCHANGED <<clock, hospActive, patients, alerts, records, audit, emitted, nReq, trained, sockVars>>

\* an acknowledgment that toggles the flag instead of setting it
AckToggle(alert, who, now) ==
  [alert EXCEPT !.is_acknowledged = ~@, !.acknowledged_by = who,
                !.acknowledged_at = now]

\* lines 662-664
AckWrite(alert, who, now) ==
  [alert EXCEPT !.is_acknowledged = TRUE, !.acknowledged_by = who,
                !.acknowledged_at = now]

\* lines 662-668
AckCommit(p) ==
  /\ req[p].pc = "aa_commit"
  /\ alerts' = [alerts EXCEPT ![req[p].arow] = AckWrite(@, req[p].actor, clock)]
  /\ req' = [req EXCEPT ![p].pc = AfterReturn(req[p].op), ![p].resp = 200]
  /\ UNCHANGED <<clock, hospActive, patients, records, audit, emitted, nReq, trained, sockVars>>

\* ------------------------------------------------------- get_patient_record
\* PatientRecord.query.filter_by(patient_id=row).order_by(created_at.desc())
\* .first(): the index of the newest record of the patient, or 0
LatestRecord(row) ==
  LET mine == {k \in 1..Len(records) : records[k].patient_id = row} IN
    IF mine = {} THEN 0
    ELSE CHOOSE k \in mine : \A j \in mine : records[j].created_at <= records[k].created_at

\* lines 677-695
GetPatientRecord(p) ==
  /\ req[p].pc = "gr_query"
  /\ LET i == FindPatient(req[p].arg) IN
       req' = [req EXCEPT ![p].pc = AfterReturn(req[p].op), ![p].row = i,
                 ![p].resp = IF i = 0 \/ LatestRecord(i) = 0 THEN 404 ELSE 200]
  /\ UNCHANGED <<clock, hospActive, patients, alerts, records, audit, emitted, nReq, trained, sockVars>>

\* ----------------------------------------------------------- get_audit_logs
\* lines 703-715 (no @log_audit on this route)
GetAuditLogs(p) ==
  /\ req[p].pc = "ga_query"
  /\ req' = [req EXCEPT ![p].pc = AfterReturn(req[p].op), ![p].resp = 200]
  /\ UNCHANGED <<clock, hospActive, patients, alerts, records, audit, emitted, nReq, trained, sockVars>>

\* ------------------------------------------------------------ specifications
Next ==
  \/ Tick
  \/ \E p \in Procs : Begin(p)
  \/ \E p \in Procs : CreateBuild(p)
  \/ \E p \in Procs : CreateRoute(p)
  \/ \E p \in Procs : CreatePersist(p)
  \/ \E p \in Procs : CreateAlert(p)
  \/ \E p \in Procs : CreateEmit(p)
  \/ \E p \in Procs : GetPatient(p)
  \/ \E p \in Procs : UpdateQuery(p)
  \/ \E p \in Procs : UpdateCommit(p)
  \/ \E p \in Procs : UpdateReload(p)
  \/ \E p \in Procs : UpdateEmit(p)
  \/ \E p \in Procs : GetHospitalAlerts(p)
  \/ \E p \in Procs : AckQuery(p)
  \/ \E p \in Procs : AckCommit(p)
  \/ \E p \in Procs : GetPatientRecord(p)
  \/ \E p \in Procs : GetAuditLogs(p)
  \/ \E p \in Procs : AuditSuccess(p)
  \/ \E p \in Procs : AuditError(p)

\* every route offered, from the empty database
Spec == Init /\ [][Next]_vars

\* every route offered, one request at a time: the role guard
BeginGuarded(p) == BeginOf(p, Ops, MaxGuarded)

NextGuard ==
  \/ Tick
  \/ \E p \in Procs : BeginGuarded(p)
  \/ \E p \in Procs : CreateBuild(p)
  \/ \E p \in Procs : CreateRoute(p)
  \/ \E p \in Procs : CreatePersist(p)
  \/ \E p \in Procs : CreateAlert(p)
  \/ \E p \in Procs : CreateEmit(p)
  \/ \E p \in Procs : GetPatient(p)
  \/ \E p \in Procs : UpdateQuery(p)
  \/ \E p \in Procs : GetHospitalAlerts(p)
  \/ \E p \in Procs : AckQuery(p)
  \/ \E p \in Procs : GetPatientRecord(p)
  \/ \E p \in Procs : GetAuditLogs(p)
  \/ \E p \in Procs : AuditSuccess(p)

SpecGuard == Init /\ [][NextGuard]_vars

\* The database after one intake served alone at second 0 by the paramedic
\* (user 1) with all vitals 1: the patient row, the audit entry and, when a
\* hospital is active, the alert and the emitted event.  Each of these table
\* contents is reached under Spec from the empty database.
SeedReq(h) ==
  [IdleReq EXCEPT !.op = "create_patient", !.actor = 1,
                  !.data = [f \in Fields |-> 1], !.pid = PatId(0),
                  !.tier = Untrained.level, !.conf = Untrained.confidence,
                  !.flag = Untrained.flag,
                  !.dest = h,
                  !.eta = IF h = None THEN None ELSE EtaMinutes * 60,
                  !.row = 1, !.arow = 1]

InitSeeded ==
  /\ clock = 0
  /\ hospActive \in ActiveFlags
  /\ records = <<>>
  /\ req = [p \in Procs |-> IdleReq]
  /\ nReq = 0
  /\ trained = FALSE
  /\ NoSockets
  /\ \E h \in (IF ActiveHospitals = {} THEN {None} ELSE ActiveHospitals) :
       /\ patients = <<PatientRow(SeedReq(h), 0)>>
       /\ alerts = IF h = None THEN <<>> ELSE <<AlertRow(SeedReq(h), 0)>>
       /\ audit = <<AuditEntry(SeedReq(h), "success")>>
       /\ emitted = IF h = None THEN <<>>
                    ELSE <<[Event(HospitalRoom(h), "new_patient_alert") EXCEPT
                              !.patient_id = PatId(0), !.hospital_id = h,
                              !.triage_level = SeedReq(h).tier,
                              !.estimated_arrival = SeedReq(h).eta,
                              !.alert_id = AlrId(0)]>>

\* vitals updates against a database that holds a patient, sent by the
\* paramedic (user 1) and by a physician (user 2), whom the guard rejects
BeginVitals(p) ==
  BeginFrom(p, {"update_patient_vitals"}, MaxUpdates, {1, 2}, AllArgs,
            AllData, {NoPhi})

NextVitals ==
  \/ Tick
  \/ \E p \in Procs : BeginVitals(p)
  \/ \E p \in Procs : UpdateQuery(p)
  \/ \E p \in Procs : UpdateCommit(p)
  \/ \E p \in Procs : UpdateReload(p)
  \/ \E p \in Procs : UpdateEmit(p)
  \/ \E p \in Procs : AuditSuccess(p)
  \/ \E p \in Procs : AuditError(p)

\* the seeded patient is routed to hospital 1, the only active one
InitVitals == InitSeeded /\ hospActive = [h \in Hospitals |-> h = 1]

SpecVitals == InitVitals /\ [][NextVitals]_vars

\* alert queries and acknowledgments against a seeded database
BeginAlerts(p) ==
  BeginOf(p, {"get_hospital_alerts", "acknowledge_alert"}, MaxAcks)

NextAlerts ==
  \/ Tick
  \/ \E p \in Procs : BeginAlerts(p)
  \/ \E p \in Procs : GetHospitalAlerts(p)
  \/ \E p \in Procs : AckQuery(p)
  \/ \E p \in Procs : AckCommit(p)
  \/ \E p \in Procs : AuditSuccess(p)

SpecAlerts == InitSeeded /\ [][NextAlerts]_vars

\* vitals updates published to the socket rooms while clients connect, join,
\* ask to leave and disconnect; hospital 1 is the active one
InitRooms == InitSeeded /\ hospActive = [h \in Hospitals |-> h = 1]

\* the paramedic (user 1) sends heart-rate updates for the seeded patient
BeginPublish(p) ==
  BeginFrom(p, {"update_patient_vitals"}, MaxPublishes, {1}, {PatId(0)},
            {[NoData EXCEPT !["heart_rate"] = 2]}, {NoPhi})

NextRooms ==
  \/ \E p \in Procs : BeginPublish(p)
  \/ \E p \in Procs : UpdateQuery(p)
  \/ \E p \in Procs : UpdateCommit(p)
  \/ \E p \in Procs : UpdateReload(p)
  \/ \E p \in Procs : UpdateEmit(p)
  \/ \E p \in Procs : AuditSuccess(p)
  \/ \E p \in Procs : AuditError(p)
  \/ \E c \in Conns : Connect(c)
  \/ \E c \in Conns : JoinHospital(c)
  \/ \E c \in Conns : JoinPatient(c)
  \/ \E c \in Conns : Disconnect(c)
  \/ \E c \in Conns : AskLeave(c)

SpecRooms == InitRooms /\ [][NextRooms]_vars

\* intakes by the paramedic (user 1) from the empty database, with no
\* hospital or hospital 1 active and a classifier that may get trained on
\* the way
InitIntake == Init /\ \E h \in Hospitals : ~hospActive[h]

BeginIntake(p) ==
  BeginFrom(p, {"create_patient"}, MaxIntakes, {1}, AllArgs, AllData, {NoPhi})

NextIntake ==
  \/ Tick
  \/ Train
  \/ \E p \in Procs : BeginIntake(p)
  \/ \E p \in Procs : CreateBuild(p)
  \/ \E p \in Procs : CreateRoute(p)
  \/ \E p \in Procs : CreatePersist(p)
  \/ \E p \in Procs : CreateAlert(p)
  \/ \E p \in Procs : CreateEmit(p)
  \/ \E p \in Procs : AuditSuccess(p)

SpecIntake == InitIntake /\ [][NextIntake]_vars

\* The database after two intakes served one after the other at seconds 0
\* and 1 with both hospitals active: two patients, and two alerts that went
\* to the same hospital or to different ones.
SecondSeedReq(h) ==
  [SeedReq(h) EXCEPT !.pid = PatId(1), !.eta = 1 + EtaMinutes * 60,
                     !.row = 2, !.arow = 2]

InitTwoAlerts ==
  /\ clock = 1
  /\ hospActive = [h \in Hospitals |-> TRUE]
  /\ records = <<>>
  /\ req = [p \in Procs |-> IdleReq]
  /\ nReq = 0
  /\ trained = FALSE
  /\ NoSockets
  /\ \E h \in Hospitals, g \in Hospitals :
       /\ patients = <<PatientRow(SeedReq(h), 0), PatientRow(SecondSeedReq(g), 1)>>
       /\ alerts = <<AlertRow(SeedReq(h), 0), AlertRow(SecondSeedReq(g), 1)>>
       /\ audit = <<AuditEntry(SeedReq(h), "success"),
                    AuditEntry(SecondSeedReq(g), "success")>>
       /\ emitted =
            <<[Event(HospitalRoom(h), "new_patient_alert") EXCEPT
                 !.patient_id = PatId(0), !.hospital_id = h,
                 !.triage_level = SeedReq(h).tier,
                 !.estimated_arrival = SeedReq(h).eta, !.alert_id = AlrId(0)],
              [Event(HospitalRoom(g), "new_patient_alert") EXCEPT
                 !.patient_id = PatId(1), !.hospital_id = g,
                 !.triage_level = SecondSeedReq(g).tier,
                 !.estimated_arrival = SecondSeedReq(g).eta,
                 !.alert_id = AlrId(1)]>>

\* the physician (user 2) lists and acknowledges alerts, the paramedic
\* (user 1) is turned away; the clock stands at second 1
BeginList(p) ==
  BeginFrom(p, {"get_hospital_alerts", "acknowledge_alert"}, MaxQueries,
            {1, 2}, AllArgs, AllData, {NoPhi})

NextAlertList ==
  \/ \E p \in Procs : BeginList(p)
  \/ \E p \in Procs : GetHospitalAlerts(p)
  \/ \E p \in Procs : AckQuery(p)
  \/ \E p \in Procs : AckCommit(p)
  \/ \E p \in Procs : AuditSuccess(p)

SpecAlertList == InitTwoAlerts /\ [][NextAlertList]_vars

\* The paramedic (user 1) files intakes that carry each PHI value as the
\* demographics or as the medical history, and reads the patient back; all
\* of it within second 0.
BeginCodec(p) ==
  BeginFrom(p, {"create_patient", "get_patient"}, MaxCodec, {1}, {<<"", 0>>, PatId(0)},
            {[f \in Fields |-> 1], NoData},
            {<<v, "{}">> : v \in PhiValues} \cup {<<"{}", v>> : v \in PhiValues})

NextCodec ==
  \/ \E p \in Procs : BeginCodec(p)
  \/ \E p \in Procs : CreateBuild(p)
  \/ \E p \in Procs : CreateRoute(p)
  \/ \E p \in Procs : CreatePersist(p)
  \/ \E p \in Procs : CreateAlert(p)
  \/ \E p \in Procs : CreateEmit(p)
  \/ \E p \in Procs : GetPatient(p)
  \/ \E p \in Procs : AuditSuccess(p)
  \/ \E p \in Procs : AuditError(p)

SpecCodec == Init /\ [][NextCodec]_vars

\* The paramedic (user 1) files an intake whose demographics or medical
\* history is a dict and reads the patient back, while stored tokens get
\* damaged or turn out to be of another key; all of it within second 0.
BeginReveal(p) ==
  BeginFrom(p, {"create_patient", "get_patient"}, MaxReveals, {1},
            {<<"", 0>>, PatId(0)}, {[f \in Fields |-> 1], NoData},
            {<<"{name:A}", "{}">>, <<"{}", "{name:A}">>})

NextReveal ==
  \/ Spoil
  \/ \E p \in Procs : BeginReveal(p)
  \/ \E p \in Procs : CreateBuild(p)
  \/ \E p \in Procs : CreateRoute(p)
  \/ \E p \in Procs : CreatePersist(p)
  \/ \E p \in Procs : CreateAlert(p)
  \/ \E p \in Procs : CreateEmit(p)
  \/ \E p \in Procs : GetPatient(p)
  \/ \E p \in Procs : AuditSuccess(p)

SpecReveal == Init /\ [][NextReveal]_vars

\* The paramedic (user 1) files an intake and sends heart-rate and
\* temperature updates for the patient it creates, against an empty
\* database, all within second 0.
BeginOrder(p) ==
  BeginFrom(p, {"create_patient", "update_patient_vitals"}, MaxOrdered, {1},
            {<<"", 0>>, PatId(0)},
            {[f \in Fields |-> 1], [NoData EXCEPT !["heart_rate"] = 2],
             [NoData EXCEPT !["temperature"] = 2]},
            {NoPhi})

InitOrder == Init /\ hospActive = [h \in Hospitals |-> h = 1]

NextOrder ==
  \/ \E p \in Procs : BeginOrder(p)
  \/ \E p \in Procs : CreateBuild(p)
  \/ \E p \in Procs : CreateRoute(p)
  \/ \E p \in Procs : CreatePersist(p)
  \/ \E p \in Procs : CreateAlert(p)
  \/ \E p \in Procs : CreateEmit(p)
  \/ \E p \in Procs : UpdateQuery(p)
  \/ \E p \in Procs : UpdateCommit(p)
  \/ \E p \in Procs : UpdateReload(p)
  \/ \E p \in Procs : UpdateEmit(p)
  \/ \E p \in Procs : AuditSuccess(p)
  \/ \E p \in Procs : AuditError(p)

SpecOrder == InitOrder /\ [][NextOrder]_vars

\* ------------------------------------------------------------------ claims
Done(p) == req[p].pc = "done"

\* the actor resolves to a user whose role the route allows
Permitted(r) == r.actor \in Users /\ UserRole(r.actor) \in AllowedRoles(r.op)

Succeeded(r) == r.resp \in {200, 201}

AlertsOf(i) == {a \in 1..Len(alerts) : alerts[a].patient_id = i}

EventsOf(pid, name) ==
  {e \in 1..Len(emitted) : emitted[e].event = name /\ emitted[e].patient_id = pid}

\* C1: every authorized call of an audited route has appended, once it has
\* answered, exactly one audit entry, whose status is 'success' exactly when
\* the call succeeded and 'error' when it failed or raised.
C1_AuditOutcomeMatches ==
  \A p \in Procs :
    (Done(p) /\ req[p].op \in AuditedOps /\ Permitted(req[p]))
      => /\ req[p].nAudit = 1
         /\ req[p].auditStatus = (IF Succeeded(req[p]) THEN "success" ELSE "error")

\* C2: an authorized intake that found no active hospital completes
\* successfully, with the case persisted without destination and eta, no
\* alert for it and no event emitted for it.
C2_IntakeWithoutFacility ==
  \A p \in Procs :
    (Done(p) /\ req[p].op = "create_patient" /\ Permitted(req[p])
       /\ ActiveHospitals = {})
      => /\ Succeeded(req[p])
         /\ req[p].row # 0
         /\ patients[req[p].row].destination_hospital_id = None
         /\ patients[req[p].row].estimated_arrival = None
         /\ AlertsOf(req[p].row) = {}
         /\ EventsOf(req[p].pid, "new_patient_alert") = {}

\* C3: a request whose actor does not resolve, or whose role the route does
\* not allow, is answered 403 at once: the handler is not entered, no table
\* and no room changes, and the audit log gains no entry.
C3_DeniedHasNoEffect ==
  [][\A p \in Procs :
       (req[p].pc \in {"idle", "done"} /\ req'[p] # req[p] /\ ~Permitted(req'[p]))
         => /\ req'[p].pc = "done"
            /\ req'[p].resp = 403
            /\ req'[p].nAudit = 0
            /\ UNCHANGED <<patients, alerts, records, audit, emitted>>]_vars

\* C3 witness: the paramedic asked for the audit log and was refused
C3_Witness ==
  \E p \in Procs :
    /\ Done(p) /\ req[p].op = "get_audit_logs" /\ req[p].actor = 1
    /\ req[p].resp = 403 /\ audit = <<>>

\* C4: update_patient_vitals on an id that matches no patient answers 404,
\* and from the lookup to the response the call changes no patient row and
\* emits nothing.
C4_UnknownCaseNoChange ==
  [][\A p \in Procs :
       /\ (/\ req[p].pc = "uv_query" /\ req'[p] # req[p]
           /\ \A i \in 1..Len(patients) : patients[i].patient_id # req[p].arg)
            => (req'[p].resp = 404 /\ UNCHANGED <<patients, emitted>>)
       /\ (/\ req[p].op = "update_patient_vitals" /\ req[p].resp = 404
           /\ ~Done(p) /\ req'[p] # req[p])
            => (/\ req'[p].resp = 404 /\ Done(p)'
                /\ UNCHANGED <<patients, emitted>>)]_vars

\* C4 witness: an update carrying vitals for an unknown id was answered 404
\* while the table holds a patient
C4_Witness ==
  \E p \in Procs :
    /\ Done(p) /\ req[p].op = "update_patient_vitals" /\ req[p].resp = 404
    /\ Provided(req[p].data) # {} /\ Len(patients) > 0

\* C5: when an update commits, and the calls that committed since it loaded
\* the row set only other fields than its own, the stored row becomes the
\* row as stored just before with exactly the provided fields replaced: the
\* concurrent writes to the other fields are kept, so no write is lost.
C5_NoLostVitalsWrite ==
  [][\A p \in Procs :
       (/\ req[p].pc = "uv_commit" /\ req'[p].pc = "uv_emit"
        /\ \A f \in Provided(req[p].data) :
             patients[req[p].row].vitals[f] = req[p].loaded[f])
         => patients'[req[p].row].vitals =
              [f \in Fields |-> IF f \in Provided(req[p].data)
                                THEN req[p].data[f]
                                ELSE patients[req[p].row].vitals[f]]]_vars

\* C5 witness: two updates of one case with disjoint fields, each loaded
\* before the other committed, have both committed and the row holds both
C5_Witness ==
  \E p, q \in Procs :
    /\ p # q
    /\ req[p].op = "update_patient_vitals" /\ req[q].op = "update_patient_vitals"
    /\ req[p].pc \in {"uv_emit", "audit_ok", "audit_err", "done"} /\ req[p].row # 0
    /\ req[q].pc \in {"uv_emit", "audit_ok", "audit_err", "done"} /\ req[q].row = req[p].row
    /\ Provided(req[p].data) # {} /\ Provided(req[q].data) # {}
    /\ Provided(req[p].data) \cap Provided(req[q].data) = {}
    /\ \E f \in Provided(req[p].data) : req[q].loaded[f] # req[p].data[f]
    /\ \E f \in Provided(req[q].data) : req[p].loaded[f] # req[q].data[f]
    /\ \A f \in Provided(req[p].data) : patients[req[p].row].vitals[f] = req[p].data[f]
    /\ \A f \in Provided(req[q].data) : patients[req[p].row].vitals[f] = req[q].data[f]

\* C6: an authorized intake served while a hospital is active (and whose
\* emit, if reached, did not fail) ends with the case persisted, its
\* destination an active hospital, its eta 15 minutes after its creation
\* time, exactly one alert for the case, at that hospital, and exactly one
\* new-patient event, in that hospital's room.
C6_IntakeRoutesAndAlerts ==
  \A p \in Procs :
    (Done(p) /\ req[p].op = "create_patient" /\ Permitted(req[p])
       /\ ActiveHospitals # {} /\ ~req[p].pubFail)
      => /\ Succeeded(req[p])
         /\ req[p].row # 0
         /\ LET c == patients[req[p].row] IN
              /\ c.destination_hospital_id \in ActiveHospitals
              /\ c.estimated_arrival = c.created_at + EtaMinutes * 60
              /\ Cardinality(AlertsOf(req[p].row)) = 1
              /\ \A a \in AlertsOf(req[p].row) :
                   alerts[a].hospital_id = c.destination_hospital_id
              /\ Cardinality(EventsOf(c.patient_id, "new_patient_alert")) = 1
              /\ \A e \in EventsOf(c.patient_id, "new_patient_alert") :
                   emitted[e].room = HospitalRoom(c.destination_hospital_id)

\* C7: two intake invocations are never allocated the same case identifier.
C7_DistinctCaseIds ==
  \A p, q \in Procs :
    (/\ p # q
     /\ req[p].op = "create_patient" /\ req[p].pc \notin {"idle", "cp_build"}
     /\ req[q].op = "create_patient" /\ req[q].pc \notin {"idle", "cp_build"}
     /\ Permitted(req[p]) /\ Permitted(req[q]))
      => req[p].pid # req[q].pid

\* C8: a call whose emit failed after its commit still answers success, and
\* what it committed (the case, or the merged vitals) is still stored.
C8_PublishFailureNonFatal ==
  \A p \in Procs :
    (Done(p) /\ req[p].pubFail)
      => /\ Succeeded(req[p])
         /\ req[p].row # 0 /\ req[p].row <= Len(patients)

\* C9: every authorized call of any of the seven routes has appended an
\* audit entry by the time it has answered.
C9_EveryRouteAudited ==
  \A p \in Procs :
    (Done(p) /\ req[p].op \in Ops /\ Permitted(req[p])) => req[p].nAudit >= 1

\* C10: an acknowledged alert stays acknowledged in every step, and an
\* acknowledgment of an already acknowledged alert answers 200 and changes
\* nothing but that alert's acknowledging user and time.
C10_AcknowledgeIdempotent ==
  [][/\ \A i \in 1..Len(alerts) :
          alerts[i].is_acknowledged
            => (i <= Len(alerts') /\ alerts'[i].is_acknowledged)
     /\ \A p \in Procs :
          (/\ req[p].pc = "aa_commit" /\ req'[p] # req[p]
           /\ alerts[req[p].arow].is_acknowledged)
            => /\ req'[p].resp = 200
               /\ alerts' = [alerts EXCEPT
                               ![req[p].arow].acknowledged_by = req[p].actor,
                               ![req[p].arow].acknowledged_at = clock]]_vars

\* C10 witness: an acknowledgment of an alert that was already acknowledged
\* has answered 200, and the alert names its actor
C10_Witness ==
  \E p \in Procs :
    /\ Done(p) /\ req[p].op = "acknowledge_alert" /\ req[p].resp = 200
    /\ req[p].wasAcked
    /\ alerts[req[p].arow].is_acknowledged
    /\ alerts[req[p].arow].acknowledged_by = req[p].actor

\* the messages of a connection that came from an emit to a room
TopicPart(stream) == SelectSeq(stream, LAMBDA m : m.n # 0)

\* C11: an emit to a room is sent to exactly the connections that are in
\* the room when it is made, once, and nothing else ever adds a room event
\* to a connection: a join replays nothing, a connection outside the room
\* gets nothing.
C11_PublishToCurrentMembers ==
  [][\A c \in Conns :
       TopicPart(inbox'[c]) =
         TopicPart(inbox[c]) \o
           (IF /\ Len(emitted') = Len(emitted) + 1
               /\ c \in connected
               /\ <<c, emitted'[Len(emitted')].room>> \in rooms
            THEN <<Sent(Len(emitted'), emitted'[Len(emitted')].room,
                        emitted'[Len(emitted')].event)>>
            ELSE <<>>)]_vars

\* an update was published to the patient room while one connection was in
\* it and another was not; the other joined afterwards and was sent nothing
C11_Witness ==
  \E c \in Conns, d \in Conns, k \in 1..Len(emitted) :
    /\ c # d
    /\ emitted[k].event = "patient_vitals_update"
    /\ \E j \in 1..Len(inbox[c]) : inbox[c][j].n = k
    /\ <<d, emitted[k].room>> \in rooms
    /\ \A j \in 1..Len(inbox[d]) : inbox[d][j].n # k

\* the room event a step sent to connection c, as a set (empty if none)
NewlySent(c) ==
  IF Len(inbox'[c]) = Len(inbox[c]) + 1 /\ inbox'[c][Len(inbox'[c])].n # 0
  THEN {inbox'[c][Len(inbox'[c])]}
  ELSE {}

\* C12: once a connection has left a room or has disconnected, no event
\* emitted afterwards is sent to it, and an emit still reaches every
\* connection that remains in the room.
C12_TeardownStopsDelivery ==
  [][/\ \A c \in Conns : \A m \in NewlySent(c) :
          c \in connected /\ <<c, m.room>> \notin left
     /\ Len(emitted') = Len(emitted) + 1 =>
          \A c \in connected :
            <<c, emitted'[Len(emitted')].room>> \in rooms \ left =>
              NewlySent(c) # {}]_vars

C14_StoreFailureAuditedAsError ==
  \A p \in Procs :
    (Done(p) /\ req[p].op \in AuditedOps /\ req[p].storeErr)
      => (req[p].nAudit = 1 /\ req[p].auditStatus = "error" /\ req[p].resp = 500)

\* C15: every alert row references a patient row and a hospital row that
\* were in their tables when the alert was inserted (rows are never
\* deleted, and the patient row is not younger than the alert).
C15_AlertReferencesExist ==
  \A a \in 1..Len(alerts) :
    /\ alerts[a].patient_id \in 1..Len(patients)
    /\ alerts[a].hospital_id \in Hospitals
    /\ patients[alerts[a].patient_id].created_at <= alerts[a].created_at

\* an intake of this behaviour has inserted its alert
C15_Witness ==
  \E p \in Procs :
    /\ req[p].op = "create_patient"
    /\ req[p].arow # 0
    /\ alerts[req[p].arow].patient_id = req[p].row
    /\ alerts[req[p].arow].hospital_id = req[p].dest

\* C16: a patient row has its triage level and its risk score both
\* assigned or both unassigned; an assigned level is one of the five tiers
\* and an assigned score lies in 0..100 and is the classifier's confidence
\* times 100.
C16_TierAndRiskTogether ==
  /\ \A i \in 1..Len(patients) :
       /\ (patients[i].triage_level = "") <=> (patients[i].risk_score = Unset)
       /\ patients[i].triage_level # "" =>
            /\ patients[i].triage_level \in Tiers
            /\ patients[i].risk_score \in 0..(100 * Unit)
  /\ \A p \in Procs :
       (req[p].op = "create_patient" /\ req[p].row # 0) =>
         /\ patients[req[p].row].triage_level = req[p].tier
         /\ patients[req[p].row].risk_score = req[p].conf * 100

\* a row was inserted with the answer of the trained classifier
C16_Witness ==
  \E p \in Procs :
    /\ req[p].op = "create_patient"
    /\ req[p].row # 0
    /\ req[p].conf > 0
    /\ patients[req[p].row].triage_level = req[p].tier

\* C17: the commit of a vitals update leaves every vital sign that the
\* request body does not carry, the triage level, the risk score, the
\* destination, the arrival estimate and the identity of the row as they
\* were, touches no other patient row and no alert; the other steps of the
\* call write nothing to either table.
C17_UpdateTouchesOnlyProvided ==
  [][\A p \in Procs :
       (req[p].op = "update_patient_vitals" /\ req'[p] # req[p]) =>
         /\ alerts' = alerts
         /\ Len(patients') = Len(patients)
         /\ \A i \in 1..Len(patients) :
              IF req[p].pc = "uv_commit" /\ i = req[p].row
              THEN /\ \A f \in Fields \ Provided(req[p].data) :
                        patients'[i].vitals[f] = patients[i].vitals[f]
                   /\ [patients'[i] EXCEPT !.vitals = patients[i].vitals,
                                           !.updated_at = patients[i].updated_at]
                        = patients[i]
              ELSE patients'[i] = patients[i]]_vars

\* an update has committed a new heart rate while the temperature, which
\* its body does not carry, is still the seeded one
C17_Witness ==
  \E p \in Procs :
    /\ req[p].pc = "uv_emit"
    /\ Provided(req[p].data) = {"heart_rate"}
    /\ patients[req[p].row].vitals["heart_rate"] = 2
    /\ patients[req[p].row].vitals["temperature"] = 1

C19_ClassifierNeverBlocks ==
  [][\A p \in Procs :
       (req[p].pc = "cp_build" /\ req'[p] # req[p] /\ ~BuildRaises(req[p])) =>
         /\ req'[p].pc = "cp_route"
         /\ req'[p].tier \in Tiers
         /\ req'[p].conf \in 0..Unit
         /\ ~trained => req'[p].flag = "warning"
         /\ (trained /\ ~Scorable(req[p].data)) => req'[p].flag = "error"
         /\ req'[p].flag \in {"warning", "error"} =>
              (req'[p].tier = "ESI-3" /\ req'[p].conf = 0)]_vars

\* an intake with a malformed blood pressure met the trained classifier, was
\* given the error fallback and has been persisted
C19_Witness ==
  \E p \in Procs :
    /\ trained
    /\ req[p].op = "create_patient"
    /\ req[p].data["blood_pressure"] = Malformed
    /\ req[p].flag = "error"
    /\ req[p].row # 0
    /\ patients[req[p].row].triage_level = "ESI-3"

\* C20: every value a request body can carry as demographics or medical
\* history is accepted by the intake (it is encrypted into the row), and
\* what the intake wrote is what a later read of the patient returns.
C20_PhiRoundTrip ==
  /\ \A q \in Procs :
       (req[q].op = "create_patient" /\ Done(q)) => req[q].pid # <<"", 0>>
  /\ \A p \in Procs, q \in Procs :
       (/\ req[q].op = "create_patient" /\ req[q].row # 0
        /\ req[p].op = "get_patient" /\ Done(p) /\ req[p].row = req[q].row)
         => (req[p].resp = 200 /\ req[p].body = <<req[q].demo, req[q].hist>>)

\* what get_patient is to return for a PHI column that holds `tok`, written
\* from the value v: the empty dict when the token cannot be decrypted
Revealed(tok, v) == IF tok[1] = PhiKey THEN v ELSE "{}"

\* C21: a read of a patient never fails on a token that is damaged or of
\* another key: get_patient answers 200, with the empty dict for such a
\* field and the written value for the other one, and leaves the stored
\* row as it was.
C21_UndecodableFieldReadsEmpty ==
  [][\A p \in Procs, q \in Procs :
       (/\ req[p].pc = "gp_query" /\ req'[p] # req[p]
        /\ req[q].op = "create_patient" /\ req[q].row # 0
        /\ req[q].row = FindPatient(req[p].arg)) =>
         LET row == patients[req[q].row] IN
           /\ req'[p].pc = "audit_ok"
           /\ req'[p].resp = 200
           /\ req'[p].body = <<Revealed(row.demographics, req[q].demo),
                               Revealed(row.medical_history, req[q].hist)>>
           /\ patients' = patients]_vars

\* a read has answered 200 with an empty demographics for a patient whose
\* demographics were written as a non-empty dict and whose token no longer
\* decrypts
C21_Witness ==
  \E p \in Procs, q \in Procs :
    /\ req[q].op = "create_patient" /\ req[q].row # 0
    /\ req[q].demo = "{name:A}"
    /\ patients[req[q].row].demographics[1] # PhiKey
    /\ req[p].op = "get_patient" /\ Done(p) /\ req[p].row = req[q].row
    /\ req[p].resp = 200
    /\ req[p].body = <<"{}", "{}">>

\* the event appended by this step, if the step publishes one
Published == emitted'[Len(emitted')]

\* C22: an event is published only after what it names is committed: when
\* a new_patient_alert is published, the patients table already holds the
\* patient and the alerts table the alert it names, that alert being of
\* this patient and hospital; the payload of a patient_vitals_update is read
\* from the committed row after the request's own commit and is published
\* as read.
C22_PublishAfterCommit ==
  [][/\ (Len(emitted') = Len(emitted) + 1 /\ Published.event = "new_patient_alert") =>
          \E i \in 1..Len(patients), a \in 1..Len(alerts) :
            /\ patients[i].patient_id = Published.patient_id
            /\ alerts[a].alert_id = Published.alert_id
            /\ alerts[a].patient_id = i
            /\ alerts[a].hospital_id = Published.hospital_id
            /\ UNCHANGED <<patients, alerts>>
     /\ \A p \in Procs :
          /\ (req[p].pc = "uv_emit" /\ req'[p].pc = "uv_send") =>
               /\ req'[p].loaded = patients[req[p].row].vitals
               /\ patients' = patients
          /\ (req[p].pc = "uv_send" /\ req'[p].pc = "uv_send") =>
               req'[p].loaded = req[p].loaded
          /\ (req[p].pc = "uv_send" /\ Len(emitted') = Len(emitted) + 1
              /\ req'[p] # req[p]) =>
               /\ Published.event = "patient_vitals_update"
               /\ Published.patient_id = patients[req[p].row].patient_id
               /\ Published.vitals = req[p].loaded
               /\ patients' = patients]_vars

\* both kinds of event were published for a patient filed in this run, and
\* the vitals event carries a heart rate that an update wrote
C22_Witness ==
  \E e \in EventsOf(PatId(0), "new_patient_alert"),
     u \in EventsOf(PatId(0), "patient_vitals_update") :
    /\ e < u
    /\ emitted[u].vitals["heart_rate"] = 2
    /\ patients[FindPatient(PatId(0))].vitals["heart_rate"] = 2

\* C25: once every update_patient_vitals call has completed, and none of
\* them failed to publish, the last patient_vitals_update published for a
\* patient carries the vitals stored for that patient.
C25_LastEventCarriesFinalVitals ==
  (\A p \in Procs : req[p].pc \in {"idle", "done"} /\ ~req[p].pubFail) =>
    \A i \in 1..Len(patients) :
      LET evs == EventsOf(patients[i].patient_id, "patient_vitals_update") IN
        evs # {} =>
          emitted[CHOOSE e \in evs : \A d \in evs : d <= e].vitals = patients[i].vitals

\* C23: an event of a room (new_patient_alert, patient_vitals_update) is
\* sent only to connections whose role the server has checked.
C23_OnlyCheckedConnectionsReceive ==
  [][\A c \in Conns : NewlySent(c) # {} => c \in RoleChecked]_vars

\* C24: when no request is in flight, every stored patient that has a
\* destination hospital is referenced by exactly one alert, and no two
\* alerts have the same alert_id.
C24_OneAlertPerRoutedCase ==
  (\A p \in Procs : req[p].pc \in {"idle", "done"}) =>
    /\ \A i \in 1..Len(patients) :
         patients[i].destination_hospital_id # None => Cardinality(AlertsOf(i)) = 1
    /\ \A a, b \in 1..Len(alerts) :
         alerts[a].alert_id = alerts[b].alert_id => a = b

====
